---- MODULE Spec2Model ----
(***************************************************************************)
(* rasterbator-to-dxf.py: circle extraction from polylines (DXF input) or  *)
(* cubic-Bezier paths (PDF input), diameter filter, spacing statistics.    *)
(*                                                                         *)
(* Numbers.  The program computes in floating point; the model computes in *)
(* exact fixed point.  A length in inches is an integer count of 1/InDen   *)
(* inch, a length in millimeters an integer count of 1/MmDen mm, a raster  *)
(* length an integer number of raster units.  The input sets below are     *)
(* chosen so that every division the program performs is exact.            *)
(***************************************************************************)
EXTENDS Integers, Sequences, FiniteSets, TLC

VARIABLES
    pc,           \* position in the __main__ block
    min_diam,     \* global min_diam (mm), line 46 / 151
    is_pdf,       \* line 155
    page_points,  \* global page_points (inches), lines 45 / 176
    diams,        \* global diams (mm), line 42
    coords,       \* global coords: <<x mm, y mm, radius mm>>, line 48 / 196
    doc_out,      \* entities of doc_out.modelspace(), line 39
    remaining,    \* entities of msp the loop of line 172 has not visited yet
    fit,          \* argument and result of the get_center_and_radius call of
                  \* the latest iteration of the loop of line 172; NoFit if none
    paths,        \* paths returned by svg2paths, line 181
    circles,      \* line 187
    idx,          \* position of the loop of line 192 in circles
    dists,        \* line 200; Undefined until assigned
    saved,        \* content of the file written by line 204; Undefined before
    printed,      \* the statistics lines printed by lines 207-212
    error         \* the exception that ended the run, or "none"

vars == <<pc, min_diam, is_pdf, page_points, diams, coords, doc_out, remaining,
          fit, paths, circles, idx, dists, saved, printed, error>>

(***************************************************************************)
(* Units                                                                   *)
(***************************************************************************)
InDen == 10 * 1016            \* counts per inch
MmDen == 2 * 400              \* counts per millimeter
Inch == InDen                 \* one inch, in inch counts

pdftocairo_dpi == 72

\* 25.4 as a fraction
MmPerInchNum == 254
MmPerInchDen == 10

Undefined == "undefined"

Abs(n) == IF n < 0 THEN -n ELSE n

\* mm counts in one inch count: 25.4 * MmDen / InDen, a whole number
MmCountsPerInchCount == (MmPerInchNum * MmDen) \div (MmPerInchDen * InDen)

\* x * 25.4: inch counts to mm counts
InchToMm(n) == n * MmCountsPerInchCount

\* x / 25.4: mm counts to inch counts
MmToInch(n) == n \div MmCountsPerInchCount

\* v / pdftocairo_dpi: raster units to inch counts
RasterToInch(v) == (v * InDen) \div pdftocairo_dpi

\* Python's round() and numpy.around(): nearest integer to num/den, ties to
\* the even integer (den > 0).
RoundHalfEven(num, den) ==
    LET q == num \div den
        r == num % den
    IN  IF 2 * r < den THEN q
        ELSE IF 2 * r > den THEN q + 1
        ELSE IF q % 2 = 0 THEN q ELSE q + 1

\* Python's min() / max() over a non-empty sequence of numbers
RECURSIVE SeqMin(_)
SeqMin(s) ==
    IF Len(s) = 1 THEN s[1]
    ELSE LET m == SeqMin(Tail(s)) IN IF m < s[1] THEN m ELSE s[1]

RECURSIVE SeqMax(_)
SeqMax(s) ==
    IF Len(s) = 1 THEN s[1]
    ELSE LET m == SeqMax(Tail(s)) IN IF m > s[1] THEN m ELSE s[1]

RECURSIVE SeqSum(_)
SeqSum(s) == IF Len(s) = 0 THEN 0 ELSE s[1] + SeqSum(Tail(s))

\* Python's tuple comparison on pairs
PairLess(a, b) == a[1] < b[1] \/ (a[1] = b[1] /\ a[2] < b[2])

\* Python's max() over a non-empty sequence of pairs
RECURSIVE PairMax(_)
PairMax(s) ==
    IF Len(s) = 1 THEN s[1]
    ELSE LET m == PairMax(Tail(s)) IN IF PairLess(s[1], m) THEN m ELSE s[1]

(***************************************************************************)
(* Page extents                                                            *)
(***************************************************************************)
a0_points ==
    <<<<0, 0>>, <<(468 * Inch) \div 10, 0>>,
      <<(468 * Inch) \div 10, (331 * Inch) \div 10>>, <<0, (331 * Inch) \div 10>>>>

\* get_page_points for a first page of width pw and height ph raster units
get_page_points(pw, ph) ==
    LET w == RasterToInch(pw)
        h == RasterToInch(ph)
    IN  <<<<0, 0>>, <<w, 0>>, <<w, h>>, <<0, h>>>>

(***************************************************************************)
(* Circle fitter                                                           *)
(***************************************************************************)
Xs(points) == [k \in 1..Len(points) |-> points[k][1]]
Ys(points) == [k \in 1..Len(points) |-> points[k][2]]

\* Variant of get_center_and_radius with the radius taken from the horizontal
\* extent; C5_PolylineFit must tell it from the function.
get_center_and_radius_horizontal(points) ==
    LET x_min == SeqMin(Xs(points))
        x_max == SeqMax(Xs(points))
        y_min == SeqMin(Ys(points))
        y_max == SeqMax(Ys(points))
        x_diff == (x_max - x_min) \div 2
        y_diff == (y_max - y_min) \div 2
    IN  [center |-> <<x_min + x_diff, y_min + y_diff>>, radius |-> x_diff]

\* get_center_and_radius(points): [center |-> <<x, y>>, radius |-> r], inches
get_center_and_radius(points) ==
    LET x_min == SeqMin(Xs(points))
        x_max == SeqMax(Xs(points))
        y_min == SeqMin(Ys(points))
        y_max == SeqMax(Ys(points))
        x_diff == (x_max - x_min) \div 2
        y_diff == (y_max - y_min) \div 2
    IN  [center |-> <<x_min + x_diff, y_min + y_diff>>, radius |-> y_diff]

\* Variant of get_center_and_radius_svg with the radius averaged over both
\* axes; C4_SvgFit must tell it from the function.
get_center_and_radius_svg_averaged(bbox, pp) ==
    LET x_min == RasterToInch(bbox[1])
        x_max == RasterToInch(bbox[2])
        y_min == RasterToInch(bbox[3])
        y_max == RasterToInch(bbox[4])
        y_max_new == PairMax(pp)[2] - y_min
        y_min_new == PairMax(pp)[2] - y_max
        x_diff == (x_max - x_min) \div 2
        y_diff == (y_max_new - y_min_new) \div 2
    IN  [center |-> <<x_min + x_diff, y_min_new + y_diff>>,
         radius |-> (x_diff + y_diff) \div 2]

\* get_center_and_radius_svg(bbox) with the global page_points pp;
\* bbox = <<x_min, x_max, y_min, y_max>> in raster units
get_center_and_radius_svg(bbox, pp) ==
    LET x_min == RasterToInch(bbox[1])
        x_max == RasterToInch(bbox[2])
        y_min == RasterToInch(bbox[3])
        y_max == RasterToInch(bbox[4])
        y_max_new == PairMax(pp)[2] - y_min
        y_min_new == PairMax(pp)[2] - y_max
        x_diff == (x_max - x_min) \div 2
        y_diff == (y_max_new - y_min_new) \div 2
    IN  [center |-> <<x_min + x_diff, y_min_new + y_diff>>, radius |-> y_diff]

(***************************************************************************)
(* Diameter filter and rounding                                            *)
(***************************************************************************)
\* lines 119-120: diameter in mm counts, rounded to the nearest 0.5 mm
RoundedDiam(radius) ==
    LET diam_mm == InchToMm(radius) * 2
    IN  (RoundHalfEven(diam_mm * 2, MmDen) * MmDen) \div 2

\* Variant of the test of line 122 with a strict comparison; C6_Filter must
\* tell it from the test.
AcceptsStrict(diam_mm, md) == diam_mm > md

\* line 122
Accepts(diam_mm, md) == diam_mm >= md

\* add_circle_to_output(center, radius): the new <<diams, coords, doc_out>>
add_circle_to_output(center, radius, md, ds, cs, doc) ==
    LET diam_mm == RoundedDiam(radius)
    IN  IF Accepts(diam_mm, md)
        THEN <<Append(ds, diam_mm),
               Append(cs, <<InchToMm(center[1]), InchToMm(center[2]), diam_mm \div 2>>),
               Append(doc, [type |-> "CIRCLE", center |-> center,
                            radius |-> MmToInch(diam_mm \div 2)])>>
        ELSE <<ds, cs, doc>>

(***************************************************************************)
(* Spacing analyzer, lines 196-201                                         *)
(***************************************************************************)
\* line 197: coords[:, 2] = np.around(coords[:, 2] * 2) / 2
RoundRadius(r) == (RoundHalfEven(r * 2, MmDen) * MmDen) \div 2

RoundedCoords(cs) ==
    [k \in 1..Len(cs) |-> <<cs[k][1], cs[k][2], RoundRadius(cs[k][3])>>]

\* distance.cdist(coords[:, :1], coords[:, :1])[i][j]: the slice :1 keeps
\* column 0 alone, so the Euclidean distance is taken over x only
Cdist(cs, i, j) == Abs(cs[i][1] - cs[j][1])

\* np.meshgrid(coords[:, 2], coords[:, 2]): rr[i][j] = r_j, rrr[i][j] = r_i
GapEntry(cs, i, j) == Cdist(cs, i, j) - cs[j][3] - cs[i][3]

\* np.tril keeps the entries with j <= i, the diagonal included
Tril(cs, i, j) == IF j <= i THEN GapEntry(cs, i, j) ELSE 0

\* line 200: np.abs(np.tril(...))[i][j]
DistEntry(cs, i, j) == Abs(Tril(cs, i, j))

\* line 201: the matrix in row-major order, without its zeros
Dists(cs) ==
    LET n == Len(cs)
        flat == [k \in 1..(n * n) |-> DistEntry(cs, ((k - 1) \div n) + 1, ((k - 1) % n) + 1)]
    IN  SelectSeq(flat, LAMBDA v : v # 0)

(***************************************************************************)
(* Report, lines 207-212                                                   *)
(***************************************************************************)
\* f"{x:.2f}" of num/den mm: the printed number, in hundredths
Fmt2(num, den) == RoundHalfEven(100 * num, den)

DiamLines(ds) ==
    <<[label |-> "Minimum diameter", value |-> Fmt2(SeqMin(ds), MmDen)],
      [label |-> "Maximum diameter", value |-> Fmt2(SeqMax(ds), MmDen)]>>

DistLines(d) ==
    <<[label |-> "Minimum distance", value |-> Fmt2(SeqMin(d), MmDen)],
      [label |-> "Maximum distance", value |-> Fmt2(SeqMax(d), MmDen)],
      [label |-> "Mean distance", value |-> Fmt2(SeqSum(d), MmDen * Len(d))]>>

(***************************************************************************)
(* Inputs                                                                  *)
(***************************************************************************)
MaxEntities == 2      \* entities in the modelspace of a DXF input
MaxPaths == 2         \* paths in the SVG of a PDF input

\* --min-diameter, in mm counts: 0, the default 1.5, 3.0
MinDiams == {0, (3 * MmDen) \div 2, 3 * MmDen}

\* first-page sizes in raster units: 1 x 1 inch, 2 x 1.5 inch
PageSizes == {<<72, 72>>, <<144, 108>>}

\* bounding boxes <<x_min, x_max, y_min, y_max>> of paths, raster units
Boxes ==
    { <<0, 72, 0, 72>>,      \* 1 x 1 inch
      <<0, 9, 0, 9>>,        \* 1/8 x 1/8 inch
      <<18, 36, 0, 18>>,     \* 1/4 x 1/4 inch
      <<36, 72, 18, 27>>,    \* wider than high
      <<54, 63, 0, 36>>,     \* higher than wide
      <<9, 9, 0, 18>>,       \* zero width
      <<0, 18, 9, 9>> }      \* zero height

\* a path: whether all its segments are CubicBezier, and its bbox()
Paths ==
    [bezier : {TRUE}, bbox : Boxes] \cup [bezier : {FALSE}, bbox : {<<0, 72, 0, 72>>}]

RECURSIVE SeqsUpTo(_, _)
SeqsUpTo(S, n) ==
    IF n = 0 THEN {<<>>}
    ELSE LET shorter == SeqsUpTo(S, n - 1)
         IN  shorter \cup {Append(s, x) : s \in {t \in shorter : Len(t) = n - 1}, x \in S}

\* 0.75 mm, in inch counts
TieSide == (3 * MmDen) \div (4 * MmCountsPerInchCount)

\* points of polylines, inch counts
GridPoints == {0, Inch \div 4} \X {0, Inch \div 8}

Polylines ==
    {<<a, b, c>> : a \in GridPoints, b \in GridPoints, c \in GridPoints}
    \cup
    { <<<<0, 0>>, <<2 * Inch, 0>>, <<2 * Inch, Inch>>, <<0, Inch>>>>,
      <<<<2 * Inch, Inch>>, <<0, 0>>, <<0, Inch>>, <<2 * Inch, 0>>>>,
      <<<<Inch, Inch>>, <<Inch + Inch \div 20, Inch>>,
        <<Inch + Inch \div 20, Inch + Inch \div 20>>, <<Inch, Inch + Inch \div 20>>>>,
      <<<<Inch, Inch + Inch \div 20>>, <<Inch + Inch \div 20, Inch>>,
        <<Inch, Inch>>, <<Inch + Inch \div 20, Inch + Inch \div 20>>>>,
      \* 0.75 mm high: twice the diameter is 1.5 mm, a tie of round()
      <<<<0, 0>>, <<TieSide, 0>>, <<TieSide, TieSide>>, <<0, TieSide>>>> }

Entities ==
    [type : {"LWPOLYLINE"}, points : Polylines] \cup [type : {"LINE"}, points : {<<>>}]

(***************************************************************************)
(* The run                                                                 *)
(***************************************************************************)
NoFit == [points |-> <<>>, center |-> <<0, 0>>, radius |-> 0]

Init ==
    /\ pc = "args"
    /\ min_diam = (3 * MmDen) \div 2
    /\ is_pdf = FALSE
    /\ page_points = a0_points
    /\ diams = <<>>
    /\ coords = <<>>
    /\ doc_out = <<>>
    /\ remaining = 0
    /\ fit = NoFit
    /\ paths = <<>>
    /\ circles = <<>>
    /\ idx = 1
    /\ dists = Undefined
    /\ saved = Undefined
    /\ printed = <<>>
    /\ error = "none"

\* lines 139-158
ParseArgs ==
    /\ pc = "args"
    /\ \E md \in MinDiams, ext \in {".pdf", ".dxf"} :
          /\ min_diam' = md
          /\ is_pdf' = (ext = ".pdf")
          /\ pc' = IF ext = ".pdf" THEN "page" ELSE "read_dxf"
    /\ UNCHANGED <<page_points, diams, coords, doc_out, remaining, fit, paths,
                   circles, idx, dists, saved, printed, error>>

\* lines 162-170
ReadDxf ==
    /\ pc = "read_dxf"
    /\ \E n \in 0..MaxEntities : remaining' = n
    /\ pc' = "dxf_loop"
    /\ UNCHANGED <<min_diam, is_pdf, page_points, diams, coords, doc_out, fit,
                   paths, circles, idx, dists, saved, printed, error>>

\* lines 172-174, one iteration; polyline_to_circle for an LWPOLYLINE
DxfLoop ==
    /\ pc = "dxf_loop"
    /\ remaining > 0
    /\ remaining' = remaining - 1
    /\ \E e \in Entities :
          IF e.type = "LWPOLYLINE"
          THEN LET f == get_center_and_radius(e.points)
                   out == add_circle_to_output(f.center, f.radius, min_diam,
                                               diams, coords, doc_out)
               IN  /\ fit' = [points |-> e.points, center |-> f.center, radius |-> f.radius]
                   /\ diams' = out[1]
                   /\ coords' = out[2]
                   /\ doc_out' = out[3]
          ELSE /\ fit' = NoFit
               /\ UNCHANGED <<diams, coords, doc_out>>
    /\ UNCHANGED <<pc, min_diam, is_pdf, page_points, paths, circles, idx, dists,
                   saved, printed, error>>

\* line 176
GetPagePoints ==
    /\ pc = "page"
    /\ \E sz \in PageSizes : page_points' = get_page_points(sz[1], sz[2])
    /\ pc' = "convert"
    /\ UNCHANGED <<min_diam, is_pdf, diams, coords, doc_out, remaining, fit, paths,
                   circles, idx, dists, saved, printed, error>>

\* lines 187-188
BezierPaths(ps) == SelectSeq(ps, LAMBDA p : p.bezier)

CirclesOf(ps, pp) ==
    LET b == BezierPaths(ps)
    IN  [k \in 1..Len(b) |-> get_center_and_radius_svg(b[k].bbox, pp)]

\* lines 177-190
ConvertPdf ==
    /\ pc = "convert"
    /\ \E ps \in SeqsUpTo(Paths, MaxPaths) :
          /\ paths' = ps
          /\ circles' = CirclesOf(ps, page_points)
    /\ idx' = 1
    /\ pc' = "pdf_loop"
    /\ UNCHANGED <<min_diam, is_pdf, page_points, diams, coords, doc_out, remaining,
                   fit, dists, saved, printed, error>>

\* lines 192-193, one iteration
PdfLoop ==
    /\ pc = "pdf_loop"
    /\ idx <= Len(circles)
    /\ LET out == add_circle_to_output(circles[idx].center, circles[idx].radius,
                                       min_diam, diams, coords, doc_out)
       IN  /\ diams' = out[1]
           /\ coords' = out[2]
           /\ doc_out' = out[3]
    /\ idx' = idx + 1
    /\ UNCHANGED <<pc, min_diam, is_pdf, page_points, remaining, fit, paths, circles,
                   dists, saved, printed, error>>

\* lines 196-201.  np.asarray of an empty list is one-dimensional, and
\* coords[:, 2] on it raises IndexError.
ComputeDists ==
    /\ pc = "pdf_loop"
    /\ idx > Len(circles)
    /\ IF Len(coords) = 0
       THEN /\ error' = "IndexError"
            /\ pc' = "crashed"
            /\ UNCHANGED <<coords, dists>>
       ELSE /\ coords' = RoundedCoords(coords)
            /\ dists' = Dists(RoundedCoords(coords))
            /\ pc' = "save"
            /\ UNCHANGED error
    /\ UNCHANGED <<min_diam, is_pdf, page_points, diams, doc_out, remaining, fit,
                   paths, circles, idx, saved, printed>>

\* lines 203-205
Save ==
    /\ \/ pc = "save"
       \/ pc = "dxf_loop" /\ remaining = 0
    /\ doc_out' = Append(doc_out, [type |-> "LWPOLYLINE", points |-> page_points])
    /\ saved' = doc_out'
    /\ pc' = "report"
    /\ UNCHANGED <<min_diam, is_pdf, page_points, diams, coords, remaining, fit,
                   paths, circles, idx, dists, printed, error>>

\* lines 207-212.  min() of an empty list raises ValueError, the name dists
\* is unbound on the DXF branch (NameError), np.min of an empty array raises
\* ValueError.
Report ==
    /\ pc = "report"
    /\ LET head == <<[label |-> "Number of circles", value |-> Len(diams)]>>
       IN  IF Len(diams) = 0
           THEN /\ printed' = head
                /\ error' = "ValueError"
                /\ pc' = "crashed"
           ELSE IF dists = Undefined
           THEN /\ printed' = head \o DiamLines(diams)
                /\ error' = "NameError"
                /\ pc' = "crashed"
           ELSE IF Len(dists) = 0
           THEN /\ printed' = head \o DiamLines(diams)
                /\ error' = "ValueError"
                /\ pc' = "crashed"
           ELSE /\ printed' = head \o DiamLines(diams) \o DistLines(dists)
                /\ error' = "none"
                /\ pc' = "hist"
    /\ UNCHANGED <<min_diam, is_pdf, page_points, diams, coords, doc_out, remaining,
                   fit, paths, circles, idx, dists, saved>>

\* lines 214-229: the histograms are drawn by matplotlib and change nothing
Hist ==
    /\ pc = "hist"
    /\ pc' = "done"
    /\ UNCHANGED <<min_diam, is_pdf, page_points, diams, coords, doc_out, remaining,
                   fit, paths, circles, idx, dists, saved, printed, error>>

Next ==
    \/ ParseArgs
    \/ ReadDxf
    \/ DxfLoop
    \/ GetPagePoints
    \/ ConvertPdf
    \/ PdfLoop
    \/ ComputeDists
    \/ Save
    \/ Report
    \/ Hist

Spec == Init /\ [][Next]_vars

\* the run has ended: normally, or by an uncaught exception
Terminated == pc \in {"done", "crashed"}

(***************************************************************************)
(* Properties                                                              *)
(***************************************************************************)
Range(s) == {s[k] : k \in 1..Len(s)}
MinOf(S) == CHOOSE m \in S : \A x \in S : m <= x
MaxOf(S) == CHOOSE m \in S : \A x \in S : m >= x
Count(s, v) == Cardinality({k \in 1..Len(s) : s[k] = v})

\* the spacing lines of the report
SpacingLabels == {"Minimum distance", "Maximum distance", "Mean distance"}
SpacingReported == \E k \in 1..Len(printed) : printed[k].label \in SpacingLabels

\* the radius of accepted circle k as recorded with its diameter (line 124)
RecordedRadius(k) == diams[k] \div 2

\* the squared distance of the centers of accepted circles i and j, mm counts
CenterDist2(i, j) ==
    (coords[i][1] - coords[j][1]) * (coords[i][1] - coords[j][1])
    + (coords[i][2] - coords[j][2]) * (coords[i][2] - coords[j][2])

\* the edge-to-edge gap of circles i and j is not zero
NonZeroGap(i, j) ==
    (RecordedRadius(i) + RecordedRadius(j)) * (RecordedRadius(i) + RecordedRadius(j))
        # CenterDist2(i, j)

UnorderedPairs == {p \in (1..Len(coords)) \X (1..Len(coords)) : p[2] < p[1]}
(* ---- C5 ----------------------------------------------------------------*)
BoxOf(points) ==
    [x_min |-> MinOf(Range(Xs(points))), x_max |-> MaxOf(Range(Xs(points))),
     y_min |-> MinOf(Range(Ys(points))), y_max |-> MaxOf(Range(Ys(points)))]

\* the points are the four corners of an axis-aligned square
IsSquare(points) ==
    LET b == BoxOf(points)
    IN  /\ b.x_max - b.x_min = b.y_max - b.y_min
        /\ b.x_max > b.x_min
        /\ Range(points) = {b.x_min, b.x_max} \X {b.y_min, b.y_max}

\* C5: the fit of a polyline returns the midpoint of the bounding box of its
\* points as center and half the vertical extent as radius, whatever the
\* horizontal extent and the order of the points; for an axis-aligned square
\* of side s centered at c it returns radius s/2 and center c.
C5_PolylineFit ==
    fit # NoFit =>
        LET b == BoxOf(fit.points)
        IN  /\ Len(fit.points) >= 3
            /\ 2 * fit.center[1] = b.x_min + b.x_max
            /\ 2 * fit.center[2] = b.y_min + b.y_max
            /\ 2 * fit.radius = b.y_max - b.y_min
            /\ IsSquare(fit.points) =>
                  /\ 2 * fit.radius = b.x_max - b.x_min
                  /\ fit.center = <<b.x_min + fit.radius, b.y_min + fit.radius>>

\* a 2 x 1 inch rectangle given out of order was fitted: radius 0.5 inch
C5_Witness ==
    /\ fit.points = <<<<2 * Inch, Inch>>, <<0, 0>>, <<0, Inch>>, <<2 * Inch, 0>>>>
    /\ fit.radius = Inch \div 2
    /\ fit.center = <<Inch, Inch \div 2>>

(* ---- C6 ----------------------------------------------------------------*)
HalfMm == MmDen \div 2

\* d is a multiple of 0.5 mm nearest to raw
NearestHalfMm(raw, d) == d % HalfMm = 0 /\ 4 * Abs(d - raw) <= MmDen

\* the multiples of 0.5 mm around raw
HalfMmAround(raw) == {(raw \div HalfMm) * HalfMm, (raw \div HalfMm) * HalfMm + HalfMm}

\* a step that filters a candidate of the given radius (inches): it is
\* appended with its rounded diameter, or dropped
FilterStep(radius) ==
    LET raw == 2 * InchToMm(radius)
    IN  \/ /\ Len(diams') = Len(diams) + 1
           /\ SubSeq(diams', 1, Len(diams)) = diams
           /\ NearestHalfMm(raw, diams'[Len(diams')])
           /\ diams'[Len(diams')] >= min_diam
        \/ /\ diams' = diams
           /\ \E d \in HalfMmAround(raw) : NearestHalfMm(raw, d) /\ d < min_diam

C6_Recorded ==
    \A k \in 1..Len(diams) : diams[k] % HalfMm = 0 /\ diams[k] >= min_diam

C6_Step ==
    /\ (pc = "pdf_loop" /\ idx' = idx + 1) => FilterStep(circles[idx].radius)
    /\ (pc = "dxf_loop" /\ remaining' = remaining - 1) =>
          IF fit' = NoFit THEN diams' = diams ELSE FilterStep(fit'.radius)

\* C6: every recorded diameter is a multiple of 0.5 mm and at least min_diam,
\* and a candidate is accepted exactly when its diameter rounded to the
\* nearest 0.5 mm is at least min_diam.
C6_Filter == [](C6_Recorded) /\ [][C6_Step]_vars

\* with min_diam 3.0 mm, a 1/8 inch path (3.175 mm, rounded 3.0) was accepted
\* and a zero-height path was dropped
C6_Witness ==
    /\ is_pdf
    /\ min_diam = 3 * MmDen
    /\ Len(circles) = 2
    /\ idx = 3
    /\ circles[1].radius = Inch \div 16
    /\ circles[2].radius = 0
    /\ diams = <<3 * MmDen>>

(* ---- C4 ----------------------------------------------------------------*)
BezierBoxes == LET b == SelectSeq(paths, LAMBDA p : p.bezier)
               IN  [k \in 1..Len(b) |-> b[k].bbox]

\* page height H in inch counts: the largest y of the page extent
PageHeight == MaxOf({page_points[k][2] : k \in 1..Len(page_points)})

\* center of the scaled, flipped box
SvgCenterOK(c, b) ==
    /\ 2 * pdftocairo_dpi * c.center[1] = (b[1] + b[2]) * InDen
    /\ 2 * pdftocairo_dpi * c.center[2]
          = 2 * pdftocairo_dpi * PageHeight - (b[3] + b[4]) * InDen

PairValue(i, j) == DistEntry(coords, i, j)

\* C1: the values reduced to min/max/mean are exactly one gap per unordered
\* pair {i, j}, i # j, without the gaps that are 0, and none for a self-pair;
\* with two circles the three statistics all equal the gap of the one pair.
C1_EveryPairOnce ==
    dists # Undefined =>
        /\ \A v \in (Range(dists) \cup {PairValue(p[1], p[2]) : p \in UnorderedPairs}) \ {0} :
              Count(dists, v)
                  = Cardinality({p \in UnorderedPairs : PairValue(p[1], p[2]) = v})
        /\ (Len(coords) = 2 /\ PairValue(2, 1) # 0) =>
              \A k \in 1..Len(printed) :
                  printed[k].label \in SpacingLabels =>
                      printed[k].value = Fmt2(PairValue(2, 1), MmDen)

\* C2: for every pair of accepted circles i # j the gap entering the
\* statistics is the Euclidean distance of the centers, over x and y, minus
\* radius_i minus radius_j, signed (negative when the circles overlap).
C2_EuclideanSignedGap ==
    dists # Undefined =>
        \A p \in UnorderedPairs :
            LET v == PairValue(p[1], p[2])
                d == v + RecordedRadius(p[1]) + RecordedRadius(p[2])
            IN  v # 0 => d >= 0 /\ d * d = CenterDist2(p[1], p[2])

\* C3: with fewer than 2 accepted circles, or every pairwise gap 0, no
\* numeric min, max or mean spacing is reported.
C3_InsufficientData ==
    SpacingReported =>
        /\ Len(coords) >= 2
        /\ \E p \in UnorderedPairs : PairValue(p[1], p[2]) # 0 \/ NonZeroGap(p[1], p[2])

\* C10: the diameter sequence and the accepted coordinates have the same
\* length and order, and the radius the analyzer subtracts for circle k is
\* exactly half of the k-th recorded diameter.
C10_RadiusIsHalfDiameter ==
    /\ Len(diams) = Len(coords)
    /\ \A k \in 1..Len(coords) : 2 * coords[k][3] = diams[k]

(* ---- C7 ----------------------------------------------------------------*)
DegenerateBox(b) == b[1] = b[2] \/ b[3] = b[4]

DegeneratePoints(points) ==
    LET b == BoxOf(points) IN b.x_min = b.x_max \/ b.y_min = b.y_max

C7_Step ==
    /\ (pc = "pdf_loop" /\ idx' = idx + 1 /\ DegenerateBox(BezierBoxes[idx])) =>
          coords' = coords /\ diams' = diams
    /\ (pc = "dxf_loop" /\ remaining' = remaining - 1 /\ fit' # NoFit
        /\ DegeneratePoints(fit'.points)) =>
          coords' = coords /\ diams' = diams

\* C7: a primitive whose bounding box has zero width or zero height is never
\* added to the accepted circles, whatever min_diam is, so every accepted
\* circle has a radius > 0.
C7_DegenerateSkipped == [][C7_Step]_vars

(* ---- C8, C9 ------------------------------------------------------------*)
\* the circles of the written drawing
SavedCircles == SelectSeq(saved, LAMBDA e : e.type = "CIRCLE")

\* C8: the step that writes the accepted circles to the output drawing is
\* reached and completed on every run, also with 0 or 1 accepted circles.
C8_AlwaysSaved ==
    Terminated =>
        /\ saved # Undefined
        /\ Len(SavedCircles) = Len(diams)

\* C9: for both inputs, the accepted circles are consumed by the spacing
\* analyzer once the filter has finished, and with at least 2 circles and a
\* non-zero gap the run reports min, max and mean spacing.
C9_AnalyzedAndReported ==
    (/\ Terminated
     /\ Len(coords) >= 2
     /\ \E p \in UnorderedPairs : PairValue(p[1], p[2]) # 0 /\ NonZeroGap(p[1], p[2])) =>
        /\ dists # Undefined
        /\ \A l \in SpacingLabels : \E k \in 1..Len(printed) : printed[k].label = l
====
